---------------------------- MODULE Spec2Model ----------------------------
(***************************************************************************)
(* LazyLauncher: the shortcut record store (lazylauncher/creator.py), its  *)
(* validators and namer (lazylauncher/utils.py) and its configuration      *)
(* (lazylauncher/config.py).                                               *)
(*                                                                         *)
(* A Python str is modelled as a sequence of one-character strings, so     *)
(* that strip, split, replace, startswith and the `in` substring test are  *)
(* computed character by character, the way the code computes them.        *)
(***************************************************************************)
EXTENDS Integers, Sequences, FiniteSets, TLC

(***************************************************************************)
(* Python str built-ins                                                    *)
(***************************************************************************)

\* str.strip() with no argument strips ASCII whitespace
Whitespace == {" ", "\t", "\n", "\r", "\f"}

\* index of the first character of s that is not in cs; Len(s) + 1 when none
FirstNotIn(s, cs) ==
    IF \E i \in 1..Len(s) : s[i] \notin cs
    THEN CHOOSE i \in 1..Len(s) : s[i] \notin cs /\ \A j \in 1..(i - 1) : s[j] \in cs
    ELSE Len(s) + 1

\* index of the last character of s that is not in cs; 0 when none
LastNotIn(s, cs) ==
    IF \E i \in 1..Len(s) : s[i] \notin cs
    THEN CHOOSE i \in 1..Len(s) : s[i] \notin cs /\ \A j \in (i + 1)..Len(s) : s[j] \in cs
    ELSE 0

\* s.lstrip(chars)
LStripSet(s, cs) == SubSeq(s, FirstNotIn(s, cs), Len(s))

\* s.strip(chars)
StripSet(s, cs) == SubSeq(s, FirstNotIn(s, cs), LastNotIn(s, cs))

\* s.strip()
Strip(s) == StripSet(s, Whitespace)

\* s.startswith(p)
StartsWith(s, p) == Len(s) >= Len(p) /\ SubSeq(s, 1, Len(p)) = p

\* s.endswith(p)
EndsWith(s, p) ==
    Len(s) >= Len(p) /\ SubSeq(s, Len(s) - Len(p) + 1, Len(s)) = p

\* p in s   (substring test)
Contains(s, p) ==
    \E i \in 1..(Len(s) - Len(p) + 1) : SubSeq(s, i, i + Len(p) - 1) = p

\* c in s   (one character)
HasChar(s, c) == \E i \in 1..Len(s) : s[i] = c

\* s.find(c) for one character, 1-based; 0 when absent
FindChar(s, c) ==
    IF HasChar(s, c)
    THEN CHOOSE i \in 1..Len(s) : s[i] = c /\ \A j \in 1..(i - 1) : s[j] # c
    ELSE 0

\* s.rfind(c) for one character, 1-based; 0 when absent
RFindChar(s, c) ==
    IF HasChar(s, c)
    THEN CHOOSE i \in 1..Len(s) : s[i] = c /\ \A j \in (i + 1)..Len(s) : s[j] # c
    ELSE 0

\* s.split(c): a sequence of strings
RECURSIVE Split(_, _)
Split(s, c) ==
    LET i == FindChar(s, c)
    IN  IF i = 0
        THEN <<s>>
        ELSE <<SubSeq(s, 1, i - 1)>> \o Split(SubSeq(s, i + 1, Len(s)), c)

\* s.split(c, 1): at most one split, from the left
Split1(s, c) ==
    LET i == FindChar(s, c)
    IN  IF i = 0
        THEN <<s>>
        ELSE <<SubSeq(s, 1, i - 1), SubSeq(s, i + 1, Len(s))>>

\* s.replace(c, r) for one character c and a string r
RECURSIVE Replace(_, _, _)
Replace(s, c, r) ==
    IF Len(s) = 0 THEN <<>>
    ELSE IF Len(s) = 1 THEN (IF s[1] = c THEN r ELSE s)
    ELSE Replace(SubSeq(s, 1, Len(s) \div 2), c, r)
         \o Replace(SubSeq(s, Len(s) \div 2 + 1, Len(s)), c, r)

LowerOf ==
    [c \in {"A","B","C","D","E","F","G","H","I","J","K","L","M","N","O","P",
            "Q","R","S","T","U","V","W","X","Y","Z"} |->
        CASE c = "A" -> "a" [] c = "B" -> "b" [] c = "C" -> "c" [] c = "D" -> "d"
          [] c = "E" -> "e" [] c = "F" -> "f" [] c = "G" -> "g" [] c = "H" -> "h"
          [] c = "I" -> "i" [] c = "J" -> "j" [] c = "K" -> "k" [] c = "L" -> "l"
          [] c = "M" -> "m" [] c = "N" -> "n" [] c = "O" -> "o" [] c = "P" -> "p"
          [] c = "Q" -> "q" [] c = "R" -> "r" [] c = "S" -> "s" [] c = "T" -> "t"
          [] c = "U" -> "u" [] c = "V" -> "v" [] c = "W" -> "w" [] c = "X" -> "x"
          [] c = "Y" -> "y" [] c = "Z" -> "z"]

\* s.lower()
Lower(s) == [i \in 1..Len(s) |-> IF s[i] \in DOMAIN LowerOf THEN LowerOf[s[i]] ELSE s[i]]

UpperLetters == DOMAIN LowerOf
LowerLetters == {LowerOf[c] : c \in UpperLetters}
Digits == {"0","1","2","3","4","5","6","7","8","9"}

(***************************************************************************)
(* String literals of the source, as character sequences                   *)
(***************************************************************************)

XdgOpen == <<"x","d","g","-","o","p","e","n">>
Unnamed == <<"u","n","n","a","m","e","d">>
DesktopExt == <<".","d","e","s","k","t","o","p">>
SHttp == <<"h","t","t","p">>
SHttps == <<"h","t","t","p","s">>
SFile == <<"f","i","l","e">>
SFtp == <<"f","t","p">>
SFtps == <<"f","t","p","s">>
SMailto == <<"m","a","i","l","t","o">>
STel == <<"t","e","l">>
SSms == <<"s","m","s">>
FilePrefix == <<"f","i","l","e",":","/","/">>
HttpPrefix == <<"h","t","t","p",":","/","/">>
HttpsPrefix == <<"h","t","t","p","s",":","/","/">>
FtpPrefix == <<"f","t","p",":","/","/">>
MailtoPrefix == <<"m","a","i","l","t","o",":">>
WwwPrefix == <<"w","w","w",".">>
KeyName == <<"N","a","m","e","=">>
KeyGenericName == <<"G","e","n","e","r","i","c","N","a","m","e","=">>
KeyExec == <<"E","x","e","c","=">>
KeyComment == <<"C","o","m","m","e","n","t","=">>
OpenPrefix == <<"O","p","e","n"," ","-"," ">>
Custom == <<"c","u","s","t","o","m">>
LineHeader == <<"[","D","e","s","k","t","o","p"," ","E","n","t","r","y","]">>
KeyIcon == <<"I","c","o","n","=">>
LineType == <<"T","y","p","e","=","A","p","p","l","i","c","a","t","i","o","n">>
KeyCategories == <<"C","a","t","e","g","o","r","i","e","s","=">>
LineStartup == <<"S","t","a","r","t","u","p","N","o","t","i","f","y","=","t","r","u","e">>
IconInternet == <<"a","p","p","l","i","c","a","t","i","o","n","s","-","i","n","t","e","r","n","e","t">>
IconFolder == <<"f","o","l","d","e","r">>
IconFolderRemote == <<"f","o","l","d","e","r","-","r","e","m","o","t","e">>
IconMailSend == <<"m","a","i","l","-","s","e","n","d">>
CatMedia == <<"A","u","d","i","o","V","i","d","e","o",";","A","u","d","i","o",";","V","i","d","e","o",";","P","l","a","y","e","r",";">>
CatDevelopment == <<"D","e","v","e","l","o","p","m","e","n","t",";","I","D","E",";">>
CatSocial == <<"N","e","t","w","o","r","k",";","C","h","a","t",";","I","n","s","t","a","n","t","M","e","s","s","a","g","i","n","g",";">>
CatShopping == <<"N","e","t","w","o","r","k",";","W","e","b","B","r","o","w","s","e","r",";">>
CatCommunication == <<"N","e","t","w","o","r","k",";","C","h","a","t",";","V","i","d","e","o","C","o","n","f","e","r","e","n","c","e",";">>
CatLocal == <<"S","y","s","t","e","m",";","F","i","l","e","M","a","n","a","g","e","r",";">>

(***************************************************************************)
(* The environment the code reads: the file system outside the two         *)
(* application directories and the executable search path.                 *)
(***************************************************************************)

\* paths for which os.path.exists() is true
ExistingPaths == { <<"/","e">>, <<"/","m"," ","b">> }

\* regular files with execute permission (Path.is_file() and os.access X_OK)
ExecutableFiles == { <<"/","m"," ","b">> }

\* commands shutil.which() resolves on PATH
PathCommands == { <<"f","x">> }

\* os.path.isabs on POSIX
IsAbs(p) == StartsWith(p, <<"/">>)

\* os.path.exists
PathExists(p) == p \in ExistingPaths

(***************************************************************************)
(* urllib.parse.urlparse, as far as the code reads its result:             *)
(* scheme, netloc, path, and whether it raises ValueError.                 *)
(***************************************************************************)

SchemeChars == LowerLetters \cup UpperLetters \cup Digits \cup {"+", "-", "."}

\* schemes in urllib.parse.uses_params: a ";params" suffix is cut off the path
UsesParams ==
    { <<>>, SFtp, SHttp, SHttps, STel,
      <<"h","d","l">>, <<"i","m","a","p">>, <<"s","i","p">>, <<"s","i","p","s">>,
      <<"m","m","s">>, <<"s","f","t","p">>, <<"r","t","s","p">>,
      <<"r","t","s","p","u">>, <<"s","h","t","t","p">>,
      <<"p","r","o","s","p","e","r","o">> }

\* index of the first character of s that is in cs; Len(s) + 1 when none
FirstOf(s, cs) ==
    IF \E i \in 1..Len(s) : s[i] \in cs
    THEN CHOOSE i \in 1..Len(s) : s[i] \in cs /\ \A j \in 1..(i - 1) : s[j] \notin cs
    ELSE Len(s) + 1

\* urllib.parse._splitparams
SplitParams(p) ==
    LET from == IF HasChar(p, "/") THEN RFindChar(p, "/") ELSE 0
        tail == SubSeq(p, from + 1, Len(p))
        k    == FindChar(tail, ";")
    IN  IF k = 0 THEN p ELSE SubSeq(p, 1, from + k - 1)

\* s[:i] where i is the position of the first character of cs in s
Before(s, cs) == SubSeq(s, 1, FirstOf(s, cs) - 1)

\* the result of urlparse, as far as the code reads it.  raises: urlsplit
\* raises ValueError ("Invalid IPv6 URL") for one square bracket without the
\* other in the netloc
ParseResult(scheme, netloc, noQuery) ==
    [ scheme |-> scheme,
      netloc |-> netloc,
      path   |-> IF scheme \in UsesParams /\ HasChar(noQuery, ";")
                 THEN SplitParams(noQuery) ELSE noQuery,
      raises |-> HasChar(netloc, "[") # HasChar(netloc, "]") ]

\* urlsplit after the netloc: the fragment, then the query, are cut off
SplitPath(scheme, netloc, rest) ==
    ParseResult(scheme, netloc, Before(Before(rest, {"#"}), {"?"}))

\* urllib.parse._splitnetloc(url, 2): the netloc ends at the first of / ? #
SplitNetloc(scheme, after) ==
    SplitPath(scheme, Before(after, {"/", "?", "#"}),
              SubSeq(after, FirstOf(after, {"/", "?", "#"}), Len(after)))

\* urlsplit once the scheme is split off
SplitRest(scheme, rest) ==
    IF StartsWith(rest, <<"/", "/">>)
    THEN SplitNetloc(scheme, SubSeq(rest, 3, Len(rest)))
    ELSE SplitPath(scheme, <<>>, rest)

\* urlsplit: the text before the first ":" is the scheme when it starts with
\* a letter and holds scheme characters only
SplitScheme(u, i) ==
    IF /\ i > 1
       /\ u[1] \in LowerLetters \cup UpperLetters
       /\ \A j \in 1..(i - 1) : u[j] \in SchemeChars
    THEN SplitRest(Lower(SubSeq(u, 1, i - 1)), SubSeq(u, i + 1, Len(u)))
    ELSE SplitRest(<<>>, u)

\* urlsplit strips leading control characters and spaces and removes the
\* unsafe characters first
CleanUrl(url) ==
    SelectSeq(LStripSet(url, Whitespace),
              LAMBDA ch : ch \notin {"\t", "\r", "\n"})

urlparse(url) == SplitScheme(CleanUrl(url), FindChar(CleanUrl(url), ":"))

(***************************************************************************)
(* utils.py                                                                *)
(***************************************************************************)

\* validate_url accepting an http or https target whatever its netloc
ValidateParsed_any_netloc(url, result) ==
    IF ~result.raises /\ result.scheme \in {SHttp, SHttps}
    THEN TRUE
    ELSE IF StartsWith(url, FilePrefix)
    THEN (IF result.raises THEN FALSE ELSE PathExists(result.path))
    ELSE IF IsAbs(url)
    THEN PathExists(url)
    ELSE IF result.raises
    THEN FALSE
    ELSE IF result.scheme # <<>> /\ result.scheme \notin {SHttp, SHttps, SFile}
    THEN IF result.scheme \in {SFtp, SFtps} /\ result.netloc # <<>> THEN TRUE
         ELSE IF result.scheme = SMailto /\ HasChar(result.path, "@") THEN TRUE
         ELSE IF result.scheme \in {STel, SSms} /\ result.path # <<>> THEN TRUE
         ELSE result.scheme # <<>> /\ (result.netloc # <<>> \/ result.path # <<>>)
    ELSE FALSE

\* validate_url after url = url.strip(), with result = urlparse(url)
ValidateParsed(url, result) ==
    IF ~result.raises /\ result.scheme \in {SHttp, SHttps} /\ result.netloc # <<>>
    THEN TRUE
    ELSE IF StartsWith(url, FilePrefix)
    THEN (IF result.raises THEN FALSE ELSE PathExists(result.path))
    ELSE IF IsAbs(url)
    THEN PathExists(url)
    ELSE IF result.raises
    THEN FALSE
    ELSE IF result.scheme # <<>> /\ result.scheme \notin {SHttp, SHttps, SFile}
    THEN IF result.scheme \in {SFtp, SFtps} /\ result.netloc # <<>> THEN TRUE
         ELSE IF result.scheme = SMailto /\ HasChar(result.path, "@") THEN TRUE
         ELSE IF result.scheme \in {STel, SSms} /\ result.path # <<>> THEN TRUE
         ELSE result.scheme # <<>> /\ (result.netloc # <<>> \/ result.path # <<>>)
    ELSE FALSE

validate_url(url) ==
    IF url = <<>> \/ Strip(url) = <<>> THEN FALSE
    ELSE ValidateParsed(Strip(url), urlparse(Strip(url)))

\* the character class [a-zA-Z0-9._-] of the regular expression
SafeChars == LowerLetters \cup UpperLetters \cup Digits \cup {".", "_", "-"}

\* re.sub(r'_+', '_', s): an underscore that follows an underscore is dropped
CollapseUnderscores(s) ==
    LET kept == SelectSeq([i \in 1..Len(s) |-> i],
                          LAMBDA i : ~(i > 1 /\ s[i] = "_" /\ s[i - 1] = "_"))
    IN  [k \in 1..Len(kept) |-> s[kept[k]]]

MaxFilenameLen == 100

\* lines 82-92: the cleaned string, before its length is limited
Cleaned(filename) ==
    LET stripped == Strip(filename)
        replaced == [i \in 1..Len(stripped) |->
                       IF stripped[i] \in SafeChars THEN stripped[i] ELSE "_"]
        collapsed == CollapseUnderscores(replaced)
        trimmed  == StripSet(collapsed, {"_", "."})
    IN  IF trimmed = <<>> THEN Unnamed ELSE trimmed

\* a namer that cuts every long string after 100 characters
sanitize_filename_plain_cut(filename) ==
    IF filename = <<>> THEN Unnamed
    ELSE IF Len(Cleaned(filename)) > MaxFilenameLen
    THEN SubSeq(Cleaned(filename), 1, MaxFilenameLen)
    ELSE Cleaned(filename)

sanitize_filename(filename) ==
    IF filename = <<>> THEN Unnamed
    ELSE
      LET sanitized == Cleaned(filename)
      IN  IF Len(sanitized) > MaxFilenameLen
          THEN IF HasChar(sanitized, ".")
               THEN LET d == RFindChar(sanitized, ".")
                        name_part == SubSeq(sanitized, 1, d - 1)
                        ext == SubSeq(sanitized, d + 1, Len(sanitized))
                        max_name_len == MaxFilenameLen - Len(ext) - 1
                    IN  IF max_name_len > 0
                        THEN SubSeq(name_part, 1, max_name_len) \o <<".">> \o ext
                        ELSE SubSeq(sanitized, 1, MaxFilenameLen)
               ELSE SubSeq(sanitized, 1, MaxFilenameLen)
          ELSE sanitized

\* Path.is_file() and os.access(path, os.X_OK)
is_executable(path) == path \in ExecutableFiles

\* shutil.which(command) is not None
find_executable(command) == command \in PathCommands

format_exec_command(browser_command, url) ==
    LET escaped_url == Replace(Replace(url, "\"", <<"\\", "\"">>), "'", <<"\\", "'">>)
    IN  IF browser_command = XdgOpen
        THEN XdgOpen \o <<" ", "\"">> \o escaped_url \o <<"\"">>
        ELSE LET quoted ==
                     IF /\ HasChar(browser_command, " ")
                        /\ ~(StartsWith(browser_command, <<"\"">>)
                             /\ EndsWith(browser_command, <<"\"">>))
                     THEN <<"\"">> \o browser_command \o <<"\"">>
                     ELSE browser_command
             IN  quoted \o <<" ", "\"">> \o escaped_url \o <<"\"">>

MaxNameLen == 50

InvalidNameChars == {"/", "\\", ":", "*", "?", "\"", "<", ">", "|"}

validate_shortcut_name(name) ==
    IF name = <<>> \/ Strip(name) = <<>>
    THEN [valid |-> FALSE, msg |-> "Shortcut name can not be Empty"]
    ELSE
      LET n == Strip(name)
      IN  IF Len(n) < 1
          THEN [valid |-> FALSE, msg |-> "Shortcut Name must be at least 1 character long"]
          ELSE IF Len(n) > MaxNameLen
          THEN [valid |-> FALSE, msg |-> "Shortcut name must be 50 characters or less"]
          ELSE IF \E c \in InvalidNameChars : HasChar(n, c)
          THEN [valid |-> FALSE, msg |-> "Shortcut name contains invalid characters"]
          ELSE IF n # Strip(n)
          THEN [valid |-> FALSE,
                msg |-> "Shortcut name cannot start or end with whitespace"]
          ELSE [valid |-> TRUE, msg |-> ""]

validate_browser_command(command) ==
    IF command = <<>> \/ Strip(command) = <<>> THEN FALSE
    ELSE
      LET c == Strip(command)
      IN  IF c = XdgOpen THEN TRUE
          ELSE IF IsAbs(c) THEN is_executable(c)
          ELSE find_executable(c)

(***************************************************************************)
(* config.py                                                               *)
(***************************************************************************)

\* Config.default_icon and Config.default_category
default_icon == IconInternet
default_category == CatShopping

\* the in-code domain -> icon table, in insertion order (dict order)
site_icons ==
    << <<<<"y","o","u","t","u","b","e",".","c","o","m">>,
         <<"y","o","u","t","u","b","e">>>>,
       <<<<"y","o","u","t","u",".","b","e">>,
         <<"y","o","u","t","u","b","e">>>>,
       <<<<"g","o","o","g","l","e",".","c","o","m">>,
         <<"g","o","o","g","l","e">>>>,
       <<<<"g","i","t","h","u","b",".","c","o","m">>,
         <<"g","i","t","h","u","b">>>>,
       <<<<"s","t","a","c","k","o","v","e","r","f","l","o","w",".","c","o","m">>,
         <<"s","t","a","c","k","o","v","e","r","f","l","o","w">>>>,
       <<<<"r","e","d","d","i","t",".","c","o","m">>,
         <<"r","e","d","d","i","t">>>>,
       <<<<"t","w","i","t","t","e","r",".","c","o","m">>,
         <<"t","w","i","t","t","e","r">>>>,
       <<<<"x",".","c","o","m">>,
         <<"t","w","i","t","t","e","r">>>>,
       <<<<"f","a","c","e","b","o","o","k",".","c","o","m">>,
         <<"f","a","c","e","b","o","o","k">>>>,
       <<<<"l","i","n","k","e","d","i","n",".","c","o","m">>,
         <<"l","i","n","k","e","d","i","n">>>>,
       <<<<"i","n","s","t","a","g","r","a","m",".","c","o","m">>,
         <<"i","n","s","t","a","g","r","a","m">>>>,
       <<<<"d","i","s","c","o","r","d",".","c","o","m">>,
         <<"d","i","s","c","o","r","d">>>>,
       <<<<"s","l","a","c","k",".","c","o","m">>,
         <<"s","l","a","c","k">>>>,
       <<<<"t","e","a","m","s",".","m","i","c","r","o","s","o","f","t",".","c","o","m">>,
         <<"t","e","a","m","s">>>>,
       <<<<"z","o","o","m",".","u","s">>,
         <<"z","o","o","m">>>>,
       <<<<"w","i","k","i","p","e","d","i","a",".","o","r","g">>,
         <<"w","i","k","i","p","e","d","i","a">>>>,
       <<<<"a","m","a","z","o","n",".","c","o","m">>,
         <<"a","m","a","z","o","n">>>>,
       <<<<"e","b","a","y",".","c","o","m">>,
         <<"e","b","a","y">>>>,
       <<<<"n","e","t","f","l","i","x",".","c","o","m">>,
         <<"n","e","t","f","l","i","x">>>>,
       <<<<"s","p","o","t","i","f","y",".","c","o","m">>,
         <<"s","p","o","t","i","f","y">>>> >>

\* the keyword groups of get_categories_for_url
MediaSites ==
    { <<"y","o","u","t","u","b","e">>,
      <<"n","e","t","f","l","i","x">>,
      <<"s","p","o","t","i","f","y">>,
      <<"t","w","i","t","c","h">>,
      <<"h","o","t","s","t","a","r">>,
      <<"p","r","i","m","e">> }
DevelopmentSites ==
    { <<"g","i","t","h","u","b">>,
      <<"s","t","a","c","k","o","v","e","r","f","l","o","w">>,
      <<"g","i","t","l","a","b">>,
      <<"c","h","a","t","g","p","t">>,
      <<"d","e","e","p","s","e","e","k">>,
      <<"g","e","m","i","n","i">> }
SocialSites ==
    { <<"t","w","i","t","c","h">>,
      <<"t","w","i","t","t","e","r">>,
      <<"x">>,
      <<"f","a","c","e","b","o","o","k">>,
      <<"l","i","n","k","e","d","i","n">>,
      <<"r","e","d","d","i","t">>,
      <<"i","n","s","t","a","g","r","a","m">> }
ShoppingSites ==
    { <<"a","m","a","z","o","n">>,
      <<"f","l","i","p","k","a","r","t">>,
      <<"e","b","a","y">>,
      <<"s","h","o","p","p","i","n","g">> }
CommunicationSites ==
    { <<"d","i","s","c","o","r","d">>,
      <<"s","l","a","c","k">>,
      <<"t","e","a","m","s">>,
      <<"z","o","o","m">> }

\* the attributes a Config instance has: those __init__ sets and the methods
\* the class defines
ConfigAttributes ==
    { "app_name", "app_version", "default_browser", "default_icon",
      "default_category", "user_applications_dir", "system_applications_dir",
      "window_size", "window_title", "desktop_template", "site_icons",
      "kbuildsycoca_commands", "_load_site_icons", "get_application_dir",
      "get_icon_for_url", "get_categories_for_url", "load_user_config",
      "save_user_config" }

\* the two application directories
Dirs == {"user_applications_dir", "system_applications_dir"}

get_application_dir(mode) ==
    IF mode = "system" THEN "system_applications_dir" ELSE "user_applications_dir"

\* index of the first table entry whose domain occurs in the text; 0 when none
FirstSiteIn(text) ==
    IF \E i \in 1..Len(site_icons) : Contains(text, site_icons[i][1])
    THEN CHOOSE i \in 1..Len(site_icons) :
            /\ Contains(text, site_icons[i][1])
            /\ \A j \in 1..(i - 1) : ~Contains(text, site_icons[j][1])
    ELSE 0

\* the domain get_icon_for_url looks up: the netloc, lowercased, without a
\* leading "www."
DomainOf(netloc) ==
    IF StartsWith(Lower(netloc), WwwPrefix)
    THEN SubSeq(Lower(netloc), 5, Len(netloc))
    ELSE Lower(netloc)

\* index of the table entry for the parsed url's domain; 0 when the url has
\* no netloc, urlparse raised, or the domain is no key of the table
ExactSite(parsed) ==
    IF /\ ~parsed.raises
       /\ parsed.netloc # <<>>
       /\ \E i \in 1..Len(site_icons) : site_icons[i][1] = DomainOf(parsed.netloc)
    THEN CHOOSE i \in 1..Len(site_icons) : site_icons[i][1] = DomainOf(parsed.netloc)
    ELSE 0

\* get_icon_for_url trying the substring match before the exact match
IconFor_substring_first(url, url_lower, e, k) ==
    IF k # 0 THEN site_icons[k][2]
    ELSE IF e # 0 THEN site_icons[e][2]
    ELSE IF StartsWith(url_lower, HttpPrefix) \/ StartsWith(url_lower, HttpsPrefix)
    THEN IconInternet
    ELSE IF StartsWith(url_lower, FilePrefix) \/ IsAbs(url) THEN IconFolder
    ELSE IF StartsWith(url_lower, FtpPrefix) THEN IconFolderRemote
    ELSE IF StartsWith(url_lower, MailtoPrefix) THEN IconMailSend
    ELSE default_icon

\* get_icon_for_url once the exact match (index e) and the first substring
\* match (index k) are known
IconFor(url, url_lower, e, k) ==
    IF e # 0 THEN site_icons[e][2]
    ELSE IF k # 0 THEN site_icons[k][2]
    ELSE IF StartsWith(url_lower, HttpPrefix) \/ StartsWith(url_lower, HttpsPrefix)
    THEN IconInternet
    ELSE IF StartsWith(url_lower, FilePrefix) \/ IsAbs(url) THEN IconFolder
    ELSE IF StartsWith(url_lower, FtpPrefix) THEN IconFolderRemote
    ELSE IF StartsWith(url_lower, MailtoPrefix) THEN IconMailSend
    ELSE default_icon

get_icon_for_url(url) ==
    IF url = <<>> THEN default_icon
    ELSE IconFor(url, Lower(url), ExactSite(urlparse(url)), FirstSiteIn(Lower(url)))

\* get_categories_for_url testing the social sites before the development sites
get_categories_for_url_social_first(url) ==
    LET url_lower == Lower(url)
        any(sites) == \E site \in sites : Contains(url_lower, site)
    IN  IF any(MediaSites) THEN CatMedia
        ELSE IF any(SocialSites) THEN CatSocial
        ELSE IF any(DevelopmentSites) THEN CatDevelopment
        ELSE IF any(ShoppingSites) THEN CatShopping
        ELSE IF any(CommunicationSites) THEN CatCommunication
        ELSE IF StartsWith(url_lower, FilePrefix) \/ IsAbs(url) THEN CatLocal
        ELSE default_category

get_categories_for_url(url) ==
    LET url_lower == Lower(url)
        any(sites) == \E site \in sites : Contains(url_lower, site)
    IN  IF any(MediaSites) THEN CatMedia
        ELSE IF any(DevelopmentSites) THEN CatDevelopment
        ELSE IF any(SocialSites) THEN CatSocial
        ELSE IF any(ShoppingSites) THEN CatShopping
        ELSE IF any(CommunicationSites) THEN CatCommunication
        ELSE IF StartsWith(url_lower, FilePrefix) \/ IsAbs(url) THEN CatLocal
        ELSE default_category

\* Config.desktop_template.format(...)
desktop_template(name, description, exec_command, icon, categories) ==
    LineHeader \o <<"\n">>
    \o KeyName \o name \o <<"\n">>
    \o KeyGenericName \o description \o <<"\n">>
    \o KeyExec \o exec_command \o <<"\n">>
    \o KeyIcon \o icon \o <<"\n">>
    \o LineType \o <<"\n">>
    \o KeyComment \o OpenPrefix \o description \o <<"\n">>
    \o KeyCategories \o categories \o <<"\n">>
    \o LineStartup \o <<"\n">>

\* Config.kbuildsycoca_commands
kbuildsycoca_commands == <<"kbuildsycoca6", "kbuildsycoca5", "kbuildsycoca">>

(***************************************************************************)
(* creator.py                                                              *)
(***************************************************************************)

_create_desktop_content(name, description, url, browser_command) ==
    desktop_template(name, description,
                     format_exec_command(browser_command, url),
                     get_icon_for_url(url),
                     get_categories_for_url(url))

\* What running one rebuild command can do:
\*   "absent"   subprocess.run raises FileNotFoundError
\*   "ok"       the process exits with code 0
\*   "nonzero"  the process exits with another code
\*   "timeout"  subprocess.run raises TimeoutExpired after 30 s
\*   "denied"   subprocess.run raises another OSError (PermissionError: the
\*              file is found but cannot be executed)
Outcomes == {"absent", "ok", "nonzero", "timeout", "denied"}

RebuildEnvs == [1..Len(kbuildsycoca_commands) -> Outcomes]

\* a rebuild that starts a command a second time when it exits non-zero
RECURSIVE RebuildFrom_retry(_, _)
RebuildFrom_retry(env, i) ==
    IF i > Len(kbuildsycoca_commands)
    THEN [ret |-> FALSE, raised |-> FALSE, started |-> <<>>]
    ELSE CASE env[i] = "absent"  -> RebuildFrom_retry(env, i + 1)
           [] env[i] = "ok"      ->
                [ret |-> TRUE, raised |-> FALSE,
                 started |-> <<kbuildsycoca_commands[i]>>]
           [] env[i] = "nonzero" ->
                LET r == RebuildFrom_retry(env, i + 1)
                IN  [r EXCEPT !.started =
                        <<kbuildsycoca_commands[i], kbuildsycoca_commands[i]>> \o @]
           [] env[i] = "timeout" ->
                [ret |-> FALSE, raised |-> FALSE,
                 started |-> <<kbuildsycoca_commands[i]>>]
           [] env[i] = "denied"  ->
                [ret |-> FALSE, raised |-> TRUE, started |-> <<>>]

\* _update_krunner_database from command i on: what it returns, whether an
\* exception leaves it, and the commands for which a process was started
RECURSIVE RebuildFrom(_, _)
RebuildFrom(env, i) ==
    IF i > Len(kbuildsycoca_commands)
    THEN [ret |-> FALSE, raised |-> FALSE, started |-> <<>>]
    ELSE CASE env[i] = "absent"  -> RebuildFrom(env, i + 1)
           [] env[i] = "ok"      ->
                [ret |-> TRUE, raised |-> FALSE,
                 started |-> <<kbuildsycoca_commands[i]>>]
           [] env[i] = "nonzero" ->
                LET r == RebuildFrom(env, i + 1)
                IN  [r EXCEPT !.started = <<kbuildsycoca_commands[i]>> \o @]
           [] env[i] = "timeout" ->
                [ret |-> FALSE, raised |-> FALSE,
                 started |-> <<kbuildsycoca_commands[i]>>]
           [] env[i] = "denied"  ->
                [ret |-> FALSE, raised |-> TRUE, started |-> <<>>]

_update_krunner_database(env) == RebuildFrom(env, 1)

\* details[key] = value
Put(details, key, value) == (key :> value) @@ details

\* one iteration of the loop over the file's lines in get_shortcut_details
ParseLine(details, line) ==
    IF StartsWith(line, KeyName)
    THEN Put(details, "name", Split1(line, "=")[2])
    ELSE IF StartsWith(line, KeyGenericName)
    THEN Put(details, "description", Split1(line, "=")[2])
    ELSE IF StartsWith(line, KeyExec)
    THEN LET exec_line == Split1(line, "=")[2]
             parts == Split(exec_line, "\"")
         IN  IF Contains(exec_line, XdgOpen)
             THEN Put(IF Len(parts) >= 2 THEN Put(details, "url", parts[2]) ELSE details,
                      "browser_command", XdgOpen)
             ELSE IF Len(parts) >= 3
             THEN Put(Put(details, "browser_command", Strip(parts[1])), "url", parts[2])
             ELSE IF Len(parts) >= 2
             THEN Put(Put(details, "url", parts[2]), "browser_command", Custom)
             ELSE details
    ELSE IF StartsWith(line, KeyComment)
    THEN LET comment == Split1(line, "=")[2]
         IN  IF StartsWith(comment, OpenPrefix)
             THEN Put(details, "description", SubSeq(comment, Len(OpenPrefix) + 1, Len(comment)))
             ELSE details
    ELSE details

RECURSIVE ParseLines(_, _)
ParseLines(details, lines) ==
    IF lines = <<>> THEN details
    ELSE ParseLines(ParseLine(details, Head(lines)), Tail(lines))

\* the body of get_shortcut_details once the file is open
ParseDetails(content) == ParseLines(<<>>, Split(content, "\n"))

\* the Name= value list_shortcuts takes from a file: <<name>>, or <<>> when no
\* line starts with "Name="
FirstName(content) ==
    LET lines == Split(content, "\n")
        hits  == {i \in 1..Len(lines) : StartsWith(lines[i], KeyName)}
    IN  IF hits = {} THEN <<>>
        ELSE LET i == CHOOSE i \in hits : \A j \in hits : i <= j
             IN  <<Split1(lines[i], "=")[2]>>

(***************************************************************************)
(* The record store as a state machine.  Its state is the content of the   *)
(* two application directories; the last call, with what it returned and   *)
(* printed, is kept so that properties can speak about it.                 *)
(***************************************************************************)

VARIABLES
    fs,     \* fs[d]: whether directory d exists, and its files (name -> content)
    last,   \* the last call: operation, arguments, return value, output, and
            \* whether it was a create_shortcut whose record passes the three
            \* validators
    prev    \* the call before it: its operation, whether its record passed the
            \* three validators, and whether it had the same name and mode, the
            \* same file and mode, and the same url, as the last call

vars == <<fs, last, prev>>

\* ---- the inputs the callers (command line, form) pass ----

NameYt        == <<"y","t">>
NameSpaced    == <<"a"," ","b">>
NameLeading   == <<" ","y","t">>
NameTrailing  == <<"a","b"," ">>
NameSlash     == <<"a","/","b">>

Names == {NameYt, NameSpaced, NameLeading, NameTrailing, NameSlash, <<>>}

UrlPlain      == <<"h","t","t","p",":","/","/","a">>
UrlDquote     == <<"h","t","t","p",":","/","/","a","/","\"","b">>
UrlSquote     == <<"h","t","t","p",":","/","/","a","/","'","b">>
UrlSentinel   == <<"h","t","t","p",":","/","/","a","/","x","d","g","-","o","p","e","n">>
UrlExisting   == <<"/","e">>
UrlMissing    == <<"/","n">>
UrlNoScheme   == <<"n","o"," ","u","r","l">>

Urls == {UrlPlain, UrlDquote, UrlSquote, UrlSentinel, UrlExisting, UrlMissing, UrlNoScheme}

BrowserOnPath   == <<"f","x">>
BrowserSpaced   == <<"/","m"," ","b">>
BrowserUnknown  == <<"n","o","p","e">>

Browsers == {XdgOpen, BrowserOnPath, BrowserSpaced, BrowserUnknown}

DescYt == <<"Y","T">>

Descriptions == {DescYt, <<>>}

Modes == {"user", "system"}

\* ---- the directories before the first call ----

NoDir    == [exists |-> FALSE, files |-> <<>>]
EmptyDir == [exists |-> TRUE,  files |-> <<>>]

\* a shortcut file left by an earlier installation
OldFile == sanitize_filename(NameYt) \o DesktopExt
OldContent == _create_desktop_content(NameYt, DescYt, UrlPlain, XdgOpen)
OldDir == [exists |-> TRUE, files |-> (OldFile :> OldContent)]

NoCall ==
    [op |-> "none", name |-> <<>>, description |-> <<>>, url |-> <<>>,
     browser_command |-> <<>>, mode |-> "user", ok |-> FALSE, list |-> <<>>,
     details |-> <<>>, printed |-> "", wrote |-> FALSE, started |-> <<>>,
     env |-> <<>>, valid |-> FALSE, out |-> <<>>, before |-> <<>>,
     escaped |-> FALSE, force |-> FALSE]

\* what the rebuild commands do during the calls explored: none is installed,
\* the first one works, fails, hangs, or is found but cannot be executed, and
\* only the last one is found but cannot be executed
NoneInstalled == [i \in 1..Len(kbuildsycoca_commands) |-> "absent"]

SomeEnvs ==
    {NoneInstalled}
    \cup {[NoneInstalled EXCEPT ![1] = o] : o \in Outcomes}
    \cup {[NoneInstalled EXCEPT ![Len(kbuildsycoca_commands)] = "denied"]}

\* a name, a description and a target with a line break inside
NameNewline == <<"y","\n","t">>

DescNewline == <<"Y","\n","T">>

UrlNewline  == <<"h","t","t","p",":","/","/","a","/","\n","b">>

\* the calls of create_shortcut explored: every name with a plain record,
\* every target with every opener, an empty description, the plain record
\* under each of the environments above, and a line break in each field
Records ==
    {[name |-> n, description |-> DescYt, url |-> UrlPlain,
      browser_command |-> XdgOpen, env |-> NoneInstalled] : n \in Names}
    \cup
    {[name |-> NameYt, description |-> DescYt, url |-> u, browser_command |-> b,
      env |-> NoneInstalled] : u \in Urls, b \in Browsers}
    \cup
    {[name |-> NameYt, description |-> d, url |-> UrlDquote,
      browser_command |-> XdgOpen, env |-> NoneInstalled] : d \in Descriptions}
    \cup
    {[name |-> NameYt, description |-> DescYt, url |-> UrlPlain,
      browser_command |-> XdgOpen, env |-> e] : e \in SomeEnvs}
    \cup
    {[name |-> NameNewline, description |-> DescYt, url |-> UrlPlain,
      browser_command |-> XdgOpen, env |-> NoneInstalled],
     [name |-> NameYt, description |-> DescNewline, url |-> UrlPlain,
      browser_command |-> XdgOpen, env |-> NoneInstalled],
     [name |-> NameYt, description |-> DescYt, url |-> UrlNewline,
      browser_command |-> XdgOpen, env |-> NoneInstalled]}

\* the record of call c passes validate_shortcut_name, validate_url and
\* validate_browser_command
ValidRecord(c) ==
    /\ validate_shortcut_name(c.name).valid
    /\ validate_url(c.url)
    /\ validate_browser_command(c.browser_command)

\* the file of the shortcut called name (lines 50 and 54)
target_path(name) == sanitize_filename(name) \o DesktopExt

\* what prev keeps of the call that `next` follows
Short(c, next) ==
    [op |-> c.op,
     valid |-> c.valid,
     same |-> c.name = next.name /\ c.mode = next.mode,
     same_id |-> target_path(c.name) = target_path(next.name) /\ c.mode = next.mode,
     same_url |-> c.url = next.url]

Init ==
    /\ fs \in [Dirs -> {NoDir, EmptyDir, OldDir}]
    /\ fs["system_applications_dir"] = EmptyDir
    /\ last = [NoCall EXCEPT !.before = fs]
    /\ prev = [op |-> "none", valid |-> FALSE, same |-> FALSE, same_id |-> FALSE,
               same_url |-> FALSE]

\* self.config.get_applications_dir(mode): the attribute lookup on the Config
\* instance raises AttributeError unless the instance has that attribute
ResolvesApplicationsDir == "get_applications_dir" \in ConfigAttributes

HasFile(d, fname) == fs[d].exists /\ fname \in DOMAIN fs[d].files

\* the call record of an operation that returns without touching the directories
Returned(call) ==
    /\ last' = [call EXCEPT !.before = fs]
    /\ prev' = Short(last, call)
    /\ UNCHANGED fs

\* a handler that catches OSError only
Catches_os_errors_only(exc) == exc \in {"OSError", "PermissionError"}

\* except Exception: whether the clause catches an exception of class exc,
\* for the classes the try blocks can raise
Catches(exc) ==
    exc \in {"AttributeError", "OSError", "PermissionError", "TimeoutExpired"}

\* an exception of class exc raised inside the try block of an operation:
\* the handler prints msg and the operation returns its failure value, or the
\* exception leaves the operation
Caught(call, exc, msg) ==
    IF Catches(exc)
    THEN [call EXCEPT !.printed = msg]
    ELSE [call EXCEPT !.escaped = TRUE]

\* the try block of create_shortcut (lines 49-87) for the call `call`, env
\* being what the rebuild commands do while it runs
try_create(call, env) ==
    IF ~ResolvesApplicationsDir
    THEN Returned(Caught(call, "AttributeError", "Error creating shortcut"))
    ELSE
      \E write_ok \in BOOLEAN :
        LET target_dir == get_application_dir(call.mode)
            filename == target_path(call.name)
            desktop_content ==
                _create_desktop_content(call.name, call.description, call.url,
                                        call.browser_command)
            rebuild == _update_krunner_database(env)
        IN  IF ~write_ok
            THEN Returned(Caught(call, "OSError", "Error creating shortcut"))
            ELSE
              /\ fs' = [fs EXCEPT ![target_dir] =
                          [exists |-> TRUE,
                           files |-> (filename :> desktop_content) @@ @.files]]
              /\ last' = IF rebuild.raised
                          THEN Caught([call EXCEPT !.wrote = TRUE,
                                                   !.started = rebuild.started,
                                                   !.before = fs],
                                      "PermissionError", "Error creating shortcut")
                          ELSE [call EXCEPT !.ok = TRUE, !.wrote = TRUE,
                                            !.started = rebuild.started,
                                            !.before = fs]
              /\ prev' = Short(last, call)

\* create_shortcut without the check of the target at lines 45-47
create_shortcut_unchecked_url(name, description, url, browser_command, mode, env) ==
    LET call == [NoCall EXCEPT !.op = "create", !.name = name,
                               !.description = description, !.url = url,
                               !.browser_command = browser_command,
                               !.mode = mode, !.env = env]
        checked == validate_shortcut_name(name)
    IN  IF ~checked.valid
        THEN Returned([call EXCEPT !.printed = checked.msg])
        ELSE try_create([call EXCEPT
                            !.valid = validate_browser_command(browser_command)],
                        env)

create_shortcut(name, description, url, browser_command, mode, env) ==
    LET call == [NoCall EXCEPT !.op = "create", !.name = name,
                               !.description = description, !.url = url,
                               !.browser_command = browser_command,
                               !.mode = mode, !.env = env]
        checked == validate_shortcut_name(name)
    IN  IF ~checked.valid
        THEN Returned([call EXCEPT !.printed = checked.msg])
        ELSE IF ~validate_url(url)
        THEN Returned([call EXCEPT !.printed = "Invalid URL or path"])
        ELSE try_create([call EXCEPT
                            !.valid = validate_browser_command(browser_command)],
                        env)

\* a remove that deletes every file of the scope directory
remove_shortcut_whole_directory(name, mode) ==
    LET call == [NoCall EXCEPT !.op = "remove", !.name = name, !.mode = mode]
    IN  IF ~fs[get_application_dir(mode)].exists
           \/ DOMAIN fs[get_application_dir(mode)].files = {}
        THEN Returned(call)
        ELSE /\ fs' = [fs EXCEPT ![get_application_dir(mode)].files = <<>>]
             /\ last' = [call EXCEPT !.ok = TRUE, !.before = fs]
             /\ prev' = Short(last, call)

remove_shortcut(name, mode) ==
    LET call == [NoCall EXCEPT !.op = "remove", !.name = name, !.mode = mode]
    IN  IF ~ResolvesApplicationsDir
        THEN Returned(Caught(call, "AttributeError", "Error removing shortcut"))
        ELSE
          LET target_dir == get_application_dir(mode)
              filename == target_path(name)
          IN  IF ~HasFile(target_dir, filename)
              THEN Returned(call)
              ELSE
                \E env \in RebuildEnvs :
                  LET rebuild == _update_krunner_database(env)
                  IN  /\ fs' = [fs EXCEPT ![target_dir].files =
                                  [f \in DOMAIN @ \ {filename} |-> @[f]]]
                      /\ last' = IF rebuild.raised
                                  THEN Caught([call EXCEPT !.started = rebuild.started,
                                                           !.before = fs],
                                              "PermissionError",
                                              "Error removing shortcut")
                                  ELSE [call EXCEPT !.ok = TRUE,
                                                    !.started = rebuild.started,
                                                    !.before = fs]
                      /\ prev' = Short(last, call)

\* the sequences that hold each element of the set once: the orders in which
\* glob may enumerate a directory
RECURSIVE Orders(_)
Orders(S) ==
    IF S = {} THEN {<<>>}
    ELSE UNION {{<<x>> \o o : o \in Orders(S \ {x})} : x \in S}

RECURSIVE NamesOf(_, _)
NamesOf(files, order) ==
    IF order = <<>> THEN <<>>
    ELSE FirstName(files[Head(order)]) \o NamesOf(files, Tail(order))

\* what list_shortcuts(mode) can return in the current state, with what it
\* prints
list_results(mode) ==
    IF ~ResolvesApplicationsDir
    THEN {Caught([list |-> <<>>, printed |-> "", escaped |-> FALSE],
                 "AttributeError", "Error listing shortcuts")}
    ELSE IF ~fs[get_application_dir(mode)].exists
    THEN {[list |-> <<>>, printed |-> "", escaped |-> FALSE]}
    ELSE {[list |-> NamesOf(fs[get_application_dir(mode)].files, order),
           printed |-> "", escaped |-> FALSE] :
            order \in Orders({f \in DOMAIN fs[get_application_dir(mode)].files :
                                 EndsWith(f, DesktopExt)})}

list_shortcuts(mode) ==
    \E r \in list_results(mode) :
        Returned([NoCall EXCEPT !.op = "list", !.mode = mode,
                                !.list = r.list, !.printed = r.printed,
                                !.escaped = r.escaped])

\* what get_shortcut_details(name, mode) returns in the current state, with
\* what it prints
details_result(name, mode) ==
    IF ~ResolvesApplicationsDir
    THEN Caught([details |-> <<>>, printed |-> "", escaped |-> FALSE],
                "AttributeError", "Error getting shortcut details")
    ELSE IF ~HasFile(get_application_dir(mode), target_path(name))
    THEN [details |-> <<>>, printed |-> "", escaped |-> FALSE]
    ELSE [details |->
              ParseDetails(fs[get_application_dir(mode)].files[target_path(name)]),
          printed |-> "", escaped |-> FALSE]

get_shortcut_details(name, mode) ==
    Returned([NoCall EXCEPT !.op = "details", !.name = name, !.mode = mode,
                            !.details = details_result(name, mode).details,
                            !.printed = details_result(name, mode).printed,
                            !.escaped = details_result(name, mode).escaped])

\* update_shortcut of the command line, lines 209-212: the record it passes to
\* create_shortcut, from the details of the existing shortcut and the options
\* given (<<>> for an option that is not given)
update_shortcut(current_details, url, description, browser) ==
    [url |-> IF url # <<>> THEN url
             ELSE IF "url" \in DOMAIN current_details
             THEN current_details["url"] ELSE <<>>,
     description |-> IF description # <<>> THEN description
                     ELSE IF "description" \in DOMAIN current_details
                     THEN current_details["description"] ELSE <<>>,
     browser_command |-> IF browser # <<>> THEN browser
                         ELSE IF "browser_command" \in DOMAIN current_details
                         THEN current_details["browser_command"] ELSE XdgOpen]

\* create_shortcut of the command line (lines 141-190): ok stands for exit
\* code 0.  The record it passes on is one that creator.create_shortcut
\* validates again with the same validators (lines 40-47), so the call
\* continues in the try block.
cli_create_shortcut(name, description, url, browser, mode, force, env) ==
    LET call == [NoCall EXCEPT
                    !.op = "cli_create", !.name = name,
                    !.description = IF description # <<>> THEN description ELSE name,
                    !.url = url, !.browser_command = browser, !.mode = mode,
                    !.force = force, !.env = env]
    IN  IF ~validate_shortcut_name(name).valid
        THEN Returned([call EXCEPT !.printed = validate_shortcut_name(name).msg])
        ELSE IF ~validate_url(url)
        THEN Returned([call EXCEPT !.printed = "Invalid URL or path"])
        ELSE IF browser # XdgOpen /\ ~validate_browser_command(browser)
        THEN Returned([call EXCEPT
                          !.printed = "Browser command not found or invalid"])
        ELSE \E shortcuts \in (IF force THEN {<<>>}
                                ELSE {r.list : r \in list_results(mode)}) :
                IF \E i \in 1..Len(shortcuts) : shortcuts[i] = name
                THEN Returned([call EXCEPT !.printed = "already exists",
                                           !.list = shortcuts])
                ELSE try_create([call EXCEPT !.valid = TRUE, !.list = shortcuts],
                                env)

Create ==
    \E r \in Records, mode \in Modes :
        create_shortcut(r.name, r.description, r.url, r.browser_command, mode,
                        r.env)

Remove == \E name \in Names, mode \in Modes : remove_shortcut(name, mode)

List == \E mode \in Modes : list_shortcuts(mode)

GetDetails == \E name \in Names, mode \in Modes : get_shortcut_details(name, mode)

Next == Create \/ Remove \/ List \/ GetDetails

Spec == Init /\ [][Next]_vars

(***************************************************************************)
(* The command line front end in front of the same directories.            *)
(***************************************************************************)

\* the command line: every name, and each description with a valid and an
\* invalid target and opener, with and without --force
CliCreate ==
    \E r \in {[name |-> n, description |-> DescYt, url |-> UrlPlain,
                browser_command |-> XdgOpen] : n \in Names}
              \cup
              {[name |-> NameYt, description |-> d, url |-> u,
                browser_command |-> b] :
                  d \in Descriptions, u \in {UrlPlain, UrlNoScheme},
                  b \in {XdgOpen, BrowserUnknown}},
       mode \in Modes, force \in BOOLEAN :
        cli_create_shortcut(r.name, r.description, r.url, r.browser_command,
                            mode, force, NoneInstalled)

CliSpec == Init /\ [][CliCreate]_vars

(***************************************************************************)
(* The validators, the namer and the classifiers called on their own, the  *)
(* way the command line and the form call them before create_shortcut.     *)
(* The first state holds the argument, the step applies the function.      *)
(***************************************************************************)

\* every string over the characters cs of length at most n
RECURSIVE StringsUpTo(_, _)
StringsUpTo(cs, n) ==
    IF n = 0 THEN {<<>>}
    ELSE StringsUpTo(cs, n - 1)
         \cup {s \o <<c>> : s \in StringsUpTo(cs, n - 1), c \in cs}

\* the letter a, n times
Filler(n) == [i \in 1..n |-> "a"]

\* names: one character or none, a run of letters or none, and a short tail,
\* so that the raw length goes past 50 with and without surrounding spaces
NameAlphabet == {"a", " ", "/"}

NamePad == 48

MaxNameTail == 2

NameInputs ==
    {h \o Filler(p) \o t :
        h \in StringsUpTo(NameAlphabet, 1),
        p \in {0, NamePad},
        t \in StringsUpTo(NameAlphabet, MaxNameTail)}

\* targets: a scheme or none, what follows it, and a space before or after
UrlSchemes ==
    {<<>>, SHttp, SHttps, <<"H","T","T","P">>, SFile, SFtp, SMailto, STel,
     <<"f","o","o">>}

UrlRests ==
    {<<>>, <<"/","/">>, <<"/","/","h">>, <<"/","/","h","/","e">>,
     <<"/","/","h","/","n">>, <<"/","/","/","e">>, <<"/","/","[","h">>,
     <<"/","e">>, <<"/","n">>, <<"a","@","b">>, <<"n","o","b","o","d","y">>,
     <<"/","/","y","o","u","t","u","b","e",".","c","o","m","/","w","a","t","c","h","?","v","=","x">>,
     <<"/","/","u","n","k","n","o","w","n","-","s","i","t","e",".","e","x","a","m","p","l","e">>,
     <<"/","/","g","i","t","h","u","b",".","c","o","m","/","y","o","u","t","u","b","e",".","c","o","m">>,
     <<"/","/","w","w","w",".","G","i","t","H","u","b",".","c","o","m","/","y","o","u","t","u","b","e",".","c","o","m">>,
     <<"/","/","h","/","y","o","u","t","u","b","e",".","c","o","m">>,
     <<"/","/","g","i","t","h","u","b",".","c","o","m",":","4","4","3","/","y","o","u","t","u","b","e",".","c","o","m">>,
     <<"/","/","g","i","t","h","u","b",".","c","o","m","/","t","w","i","t","t","e","r">>,
     <<"/","/","a","m","a","z","o","n",".","c","o","m","/","d","i","s","c","o","r","d">>,
     <<"/","/","d","i","s","c","o","r","d",".","c","o","m">>,
     <<"/","e","/","y","o","u","t","u","b","e">>}

UrlInputs ==
    {p \o (IF s = <<>> THEN <<>> ELSE s \o <<":">>) \o r \o q :
        p \in {<<>>, <<" ">>}, s \in UrlSchemes, r \in UrlRests,
        q \in {<<>>, <<" ">>}}

\* strings to make file names of: as the names, with the characters the namer
\* strips, and a run of letters that takes the length past 100, after a dot
\* as well
FilenameAlphabet == {"a", "_", ".", "/", " "}

FilenamePad == 98

MaxFilenameTail == 2

FilenameInputs ==
    {h \o Filler(p) \o t :
        h \in StringsUpTo(FilenameAlphabet, 1) \cup {<<"a", ".">>},
        p \in {0, FilenamePad},
        t \in StringsUpTo(FilenameAlphabet, MaxFilenameTail)}

\* the argument of a call that has not run yet
Pending(op, field, arg) ==
    [NoCall EXCEPT !.op = op, ![field] = arg]

UtilInit ==
    /\ fs = [d \in Dirs |-> EmptyDir]
    /\ prev = [op |-> "none", valid |-> FALSE, same |-> FALSE, same_id |-> FALSE,
               same_url |-> FALSE]
    /\ last \in {Pending("name", "name", n) : n \in NameInputs}
                \cup {Pending("url", "url", u) : u \in UrlInputs}
                \cup {Pending("filename", "name", x) : x \in FilenameInputs}
                \cup {Pending("rebuild", "env", e) : e \in RebuildEnvs}

\* the call has returned: last holds what it returned
Answered(call) ==
    /\ last' = call
    /\ UNCHANGED <<fs, prev>>

ValidateName ==
    /\ last.op = "name"
    /\ Answered([last EXCEPT !.op = "validate_shortcut_name",
                             !.ok = validate_shortcut_name(last.name).valid,
                             !.printed = validate_shortcut_name(last.name).msg])

ValidateTarget ==
    /\ last.op = "url"
    /\ Answered([last EXCEPT !.op = "validate_url", !.ok = validate_url(last.url)])

Sanitize ==
    /\ last.op = "filename"
    /\ Answered([last EXCEPT !.op = "sanitize_filename",
                             !.out = sanitize_filename(last.name)])

GetIcon ==
    /\ last.op = "url"
    /\ Answered([last EXCEPT !.op = "get_icon_for_url",
                             !.out = get_icon_for_url(last.url)])

GetCategories ==
    /\ last.op = "url"
    /\ Answered([last EXCEPT !.op = "get_categories_for_url",
                             !.out = get_categories_for_url(last.url)])

\* one call of _update_krunner_database while the rebuild commands do what
\* last.env says
UpdateKrunnerDatabase ==
    /\ last.op = "rebuild"
    /\ Answered([last EXCEPT
                    !.op = "_update_krunner_database",
                    !.ok = _update_krunner_database(last.env).ret,
                    !.started = _update_krunner_database(last.env).started,
                    !.escaped = _update_krunner_database(last.env).raised])

UtilNext ==
    \/ ValidateName
    \/ ValidateTarget
    \/ Sanitize
    \/ GetIcon
    \/ GetCategories
    \/ UpdateKrunnerDatabase

UtilSpec == UtilInit /\ [][UtilNext]_vars

(***************************************************************************)
(* Properties of the record store.                                         *)
(***************************************************************************)

\* the directory and the file the last call is about
LastDir == get_application_dir(last.mode)

LastFile == target_path(last.name)

\* whether directory d held file fname before the last call
HadFile(d, fname) == last.before[d].exists /\ fname \in DOMAIN last.before[d].files

\* the last call was create_shortcut with a valid name, target and opener
ValidCreate == last.op = "create" /\ ValidRecord(last)

\* the text create_shortcut serializes the last call's record to
LastContent ==
    _create_desktop_content(last.name, last.description, last.url,
                            last.browser_command)

\* what get_shortcut_details(last.name, last.mode) returns in this state
LastDetails == details_result(last.name, last.mode).details

\* the names list_shortcuts(last.mode) can return in this state
LastListed ==
    UNION {{r.list[i] : i \in 1..Len(r.list)} : r \in list_results(last.mode)}

\* the failure was reported by a validator, before the try block: something
\* was printed, and it is not the exception handler's message
ValidationFailure ==
    /\ ~last.ok
    /\ last.printed \notin {"", "Error creating shortcut"}

\* C1: Create with a valid name, a valid target and a valid opener returns
\* success, and afterwards the file sanitize(name) + ".desktop" exists in the
\* directory of the requested scope and holds the serialized record.
C1_CreateStoresRecord ==
    ValidCreate =>
        /\ last.ok
        /\ HasFile(LastDir, LastFile)
        /\ fs[LastDir].files[LastFile] = LastContent

\* C2: for every valid record, what Create serializes and GetDetails parses
\* back has the same name, the same target and the same description as the
\* record passed to Create, also when the target contains a double or a
\* single quote.
C2_RoundTrip ==
    ValidCreate =>
        /\ {"name", "url", "description"} \subseteq DOMAIN ParseDetails(LastContent)
        /\ ParseDetails(LastContent)["name"] = last.name
        /\ ParseDetails(LastContent)["url"] = last.url
        /\ ParseDetails(LastContent)["description"] = last.description

\* C3: for every valid record, what Create serializes and GetDetails parses
\* back reports the opener passed to Create: xdg-open exactly when Create
\* was called with xdg-open, and otherwise the custom command, also when the
\* command contains spaces or the target contains the text "xdg-open".
C3_OpenerRecovered ==
    ValidCreate =>
        /\ "browser_command" \in DOMAIN ParseDetails(LastContent)
        /\ ParseDetails(LastContent)["browser_command"] = last.browser_command

\* C4: Create with a name that fails validate_shortcut_name or a target that
\* fails validate_url returns False with the validator's message, and leaves
\* the directories as they were: no directory created, no file written or
\* modified, no rebuild command started.
C4_InvalidCreateTouchesNothing ==
    (/\ last.op = "create"
     /\ \/ ~validate_shortcut_name(last.name).valid
        \/ ~validate_url(last.url))
    =>
        /\ ValidationFailure
        /\ fs = last.before
        /\ ~last.wrote
        /\ last.started = <<>>

\* a Create refused for its target, in front of a directory that holds a file
C4_Witness ==
    /\ last.op = "create"
    /\ validate_shortcut_name(last.name).valid
    /\ ~validate_url(last.url)
    /\ ~last.ok
    /\ HasFile(LastDir, LastFile)

\* C5: Create with an opener that fails validate_browser_command (not
\* xdg-open, not an executable file given by absolute path, not a command on
\* the search path), the name and the target being valid, returns a
\* validation failure and writes no file.
C5_InvalidOpenerRejected ==
    (/\ last.op = "create"
     /\ validate_shortcut_name(last.name).valid
     /\ validate_url(last.url)
     /\ ~validate_browser_command(last.browser_command))
    =>
        /\ ValidationFailure
        /\ ~last.wrote
        /\ fs = last.before

\* C6: after two Create calls in the same scope with the same name and
\* different targets, both with valid records, exactly one file carries the
\* name, and GetDetails(name, scope) gives the second call's target,
\* description and opener.
C6_SecondCreateOverwrites ==
    (/\ ValidCreate
     /\ prev.op = "create" /\ prev.valid /\ prev.same /\ ~prev.same_url)
    =>
        /\ fs[LastDir].exists
        /\ Cardinality({f \in DOMAIN fs[LastDir].files :
                           FirstName(fs[LastDir].files[f]) = <<last.name>>}) = 1
        /\ {"url", "description", "browser_command"} \subseteq DOMAIN LastDetails
        /\ LastDetails["url"] = last.url
        /\ LastDetails["description"] = last.description
        /\ LastDetails["browser_command"] = last.browser_command

C8_RemoveReportsRemoval ==
    last.op = "remove" =>
        /\ last.ok <=> HadFile(LastDir, LastFile)
        /\ last.ok => ~HasFile(LastDir, LastFile)
        /\ ~HadFile(LastDir, LastFile) => fs = last.before

\* C9: whatever the rebuild commands do during a Create (each absent, exiting
\* non-zero, not runnable or timing out), the rebuild step lets no exception
\* out into Create, and a Create that wrote the file returns success.
C9_RebuildNeverFailsCreate ==
    last.op = "create" =>
        /\ ~_update_krunner_database(last.env).raised
        /\ last.wrote => last.ok

\* C10: validate_shortcut_name rejects every name whose raw form differs
\* from its trimmed form, and Create reports the validator's message for it.
C10_UntrimmedRejected ==
    (last.op = "create" /\ last.name # Strip(last.name))
    =>
        /\ ~validate_shortcut_name(last.name).valid
        /\ last.printed = validate_shortcut_name(last.name).msg

\* C11: validate_shortcut_name fails with the empty-name reason for a name
\* that is empty or blank after trimming, with the too-long reason for a name
\* longer than 50 characters, with the invalid-characters reason for a name
\* that contains one of / \ : * ? " < > |, the checks being applied in that
\* order; a name of 1 to 50 characters with none of those characters and no
\* surrounding whitespace is accepted with an empty reason.
C11_NameReasons ==
    last.op = "validate_shortcut_name" =>
        IF Strip(last.name) = <<>>
        THEN ~last.ok /\ last.printed = "Shortcut name can not be Empty"
        ELSE IF Len(last.name) > MaxNameLen
        THEN ~last.ok /\ last.printed = "Shortcut name must be 50 characters or less"
        ELSE IF \E c \in InvalidNameChars : HasChar(last.name, c)
        THEN ~last.ok /\ last.printed = "Shortcut name contains invalid characters"
        ELSE last.name = Strip(last.name) => last.ok /\ last.printed = ""

\* the target of the last call as validate_url reads it, and its parse
LastTarget == Strip(last.url)

LastParsed == urlparse(Strip(last.url))

\* C12: validate_url accepts a target with a scheme other than http, https
\* and file only if the parsed target has a non-empty host, or the scheme is
\* mailto and the path contains '@'; every other such target is rejected.
C12_OtherSchemes ==
    (/\ last.op = "validate_url"
     /\ ~IsAbs(LastTarget) /\ ~StartsWith(LastTarget, FilePrefix)
     /\ ~LastParsed.raises
     /\ LastParsed.scheme \notin {<<>>, SHttp, SHttps, SFile}
     /\ last.ok)
    =>
        \/ LastParsed.netloc # <<>>
        \/ LastParsed.scheme = SMailto /\ HasChar(LastParsed.path, "@")

\* C13, as validate_url behaves: with the surrounding whitespace of the
\* target removed first, an http or https target is accepted exactly when
\* its netloc is non-empty, a target starting with file:// exactly when the
\* path it refers to exists, an absolute path exactly when it exists, and a
\* target with no scheme that is not an absolute path is rejected.
C13_TrimmedTarget ==
    last.op = "validate_url" =>
        /\ (~LastParsed.raises /\ LastParsed.scheme \in {SHttp, SHttps})
              => (last.ok <=> LastParsed.netloc # <<>>)
        /\ StartsWith(LastTarget, FilePrefix)
              => (last.ok <=> ~LastParsed.raises /\ PathExists(LastParsed.path))
        /\ IsAbs(LastTarget) => (last.ok <=> PathExists(LastTarget))
        /\ (~LastParsed.raises /\ LastParsed.scheme = <<>> /\ ~IsAbs(LastTarget))
              => ~last.ok
        /\ last.ok \in BOOLEAN

\* an existing absolute path given with a space after it is accepted
C13_Witness ==
    /\ last.op = "validate_url"
    /\ last.url # LastTarget
    /\ IsAbs(LastTarget)
    /\ last.ok

\* C13 as stated, about the target as it is passed: an http or https target
\* is accepted exactly when its host is non-empty, a target starting with
\* file:// exactly when the referenced path exists, an absolute path exactly
\* when that path exists, and a string with no scheme that is not an absolute
\* path is rejected.
C13_RawTarget ==
    last.op = "validate_url" =>
        /\ (~urlparse(last.url).raises /\ urlparse(last.url).scheme \in {SHttp, SHttps})
              => (last.ok <=> urlparse(last.url).netloc # <<>>)
        /\ StartsWith(last.url, FilePrefix)
              => (last.ok <=> ~urlparse(last.url).raises
                                /\ PathExists(urlparse(last.url).path))
        /\ IsAbs(last.url) => (last.ok <=> PathExists(last.url))
        /\ (~urlparse(last.url).raises /\ urlparse(last.url).scheme = <<>>
            /\ ~IsAbs(last.url))
              => ~last.ok

\* C14: sanitize_filename returns, for every string (empty, made of invalid
\* characters only, longer than 100 characters), a non-empty string of
\* characters in [A-Za-z0-9._-] that neither starts nor ends with '_' or '.'.
C14_SanitizeWellFormed ==
    last.op = "sanitize_filename" =>
        /\ last.out # <<>>
        /\ \A i \in 1..Len(last.out) : last.out[i] \in SafeChars
        /\ last.out[1] \notin {"_", "."}
        /\ last.out[Len(last.out)] \notin {"_", "."}

\* C15: sanitize_filename is idempotent: applied to its own result it
\* returns that result, also for strings long enough to be truncated.
C15_SanitizeIdempotent ==
    last.op = "sanitize_filename" => sanitize_filename(last.out) = last.out

\* the entries of the icon table whose domain is the host of the last call's
\* target (its netloc, lowercased, without a leading "www."), and those
\* whose domain occurs somewhere in the lowercased target
HostEntries ==
    {i \in 1..Len(site_icons) :
        /\ ~urlparse(last.url).raises
        /\ urlparse(last.url).netloc # <<>>
        /\ site_icons[i][1] = DomainOf(urlparse(last.url).netloc)}

OccurringEntries ==
    {i \in 1..Len(site_icons) : Contains(Lower(last.url), site_icons[i][1])}

KeywordGroups ==
    << [sites |-> MediaSites,         category |-> CatMedia],
       [sites |-> DevelopmentSites,   category |-> CatDevelopment],
       [sites |-> SocialSites,        category |-> CatSocial],
       [sites |-> ShoppingSites,      category |-> CatShopping],
       [sites |-> CommunicationSites, category |-> CatCommunication] >>

MatchedGroups ==
    {g \in 1..Len(KeywordGroups) :
        \E site \in KeywordGroups[g].sites : Contains(Lower(last.url), site)}

\* C17: get_categories_for_url returns the category string of the first
\* group, in the order media, development, social, shopping, communication,
\* local file, default, whose condition the lowercased target satisfies: the
\* earliest keyword group that matches, else the file-manager string for an
\* absolute or file:// path, else "Network;WebBrowser;".
C17_FirstGroupWins ==
    last.op = "get_categories_for_url" =>
        IF MatchedGroups # {}
        THEN \E g \in MatchedGroups :
                /\ \A h \in MatchedGroups : g <= h
                /\ last.out = KeywordGroups[g].category
        ELSE IF StartsWith(Lower(last.url), FilePrefix) \/ IsAbs(last.url)
        THEN last.out = CatLocal
        ELSE last.out = default_category

\* a target with a development keyword and a social keyword, classified as
\* development
C17_Witness ==
    /\ last.op = "get_categories_for_url"
    /\ MatchedGroups = {2, 3}
    /\ last.out = CatDevelopment

\* the shortcut files of the last call's directory that declare a Name= line
DeclaringFiles ==
    {f \in DOMAIN fs[LastDir].files :
        EndsWith(f, DesktopExt) /\ FirstName(fs[LastDir].files[f]) # <<>>}

\* C18: list_shortcuts returns the empty sequence when the scope directory
\* does not exist; otherwise it returns one entry per shortcut file of the
\* directory that declares a Name= line, the value of the file's first
\* Name= line, the files being taken in some order.
C18_ListEntries ==
    last.op = "list" =>
        IF ~fs[LastDir].exists
        THEN last.list = <<>>
        ELSE \E order \in Orders(DeclaringFiles) :
                last.list = [i \in 1..Len(order) |->
                                FirstName(fs[LastDir].files[order[i]])[1]]

\* C19: for every record create_shortcut accepts (its name and its target
\* pass the validators), the text written consists of exactly the nine
\* template lines in the fixed order, [Desktop Entry], Name, GenericName,
\* Exec, Icon, Type=Application, Comment, Categories, StartupNotify=true,
\* each ended by a line break: no name, description or target adds a line.
C19_NineLines ==
    (/\ last.op = "create"
     /\ validate_shortcut_name(last.name).valid
     /\ validate_url(last.url))
    =>
        /\ Len(Split(LastContent, "\n")) = 10
        /\ Split(LastContent, "\n")[1] = LineHeader
        /\ StartsWith(Split(LastContent, "\n")[2], KeyName)
        /\ StartsWith(Split(LastContent, "\n")[3], KeyGenericName)
        /\ StartsWith(Split(LastContent, "\n")[4], KeyExec)
        /\ StartsWith(Split(LastContent, "\n")[5], KeyIcon)
        /\ Split(LastContent, "\n")[6] = LineType
        /\ StartsWith(Split(LastContent, "\n")[7], KeyComment)
        /\ StartsWith(Split(LastContent, "\n")[8], KeyCategories)
        /\ Split(LastContent, "\n")[9] = LineStartup
        /\ Split(LastContent, "\n")[10] = <<>>

\* C20: a record created with an empty description is stored with its
\* description equal to its name: what create_shortcut serializes for it
\* parses back, as get_shortcut_details parses, to description = name.
C20_DescriptionDefaultsToName ==
    (ValidCreate /\ last.description = <<>>)
    =>
        /\ "description" \in DOMAIN ParseDetails(LastContent)
        /\ ParseDetails(LastContent)["description"] = last.name

\* the messages the exception handlers of the four operations print
HandlerMessages ==
    {"Error creating shortcut", "Error removing shortcut",
     "Error listing shortcuts", "Error getting shortcut details"}

\* C21: no operation of the record store lets an exception out: create,
\* remove, list and details each return a value for every input explored and
\* every failure inside their try block, and when the exception handler ran
\* the value is False, the empty list or the empty dictionary.
C21_NoExceptionEscapes ==
    last.op \in {"create", "remove", "list", "details"} =>
        /\ ~last.escaped
        /\ last.ok \in BOOLEAN
        /\ last.printed \in HandlerMessages =>
              (~last.ok /\ last.list = <<>> /\ last.details = <<>>)

\* a create_shortcut whose try block raised, with a record that passes the
\* validators, returned False
C21_Witness ==
    /\ ValidCreate
    /\ last.printed = "Error creating shortcut"
    /\ ~last.escaped
    /\ ~last.ok

\* C22: the identity of a record within a scope is sanitize(name): when two
\* Create calls with valid records use different names that sanitize to the
\* same string, one file carries that identity afterwards and it holds the
\* second record as serialized, with nothing left of the first.
C22_SameIdentityLastWins ==
    (/\ ValidCreate
     /\ prev.op = "create" /\ prev.valid /\ prev.same_id /\ ~prev.same)
    =>
        /\ HasFile(LastDir, LastFile)
        /\ fs[LastDir].files[LastFile] = LastContent

\* the place of a rebuild command in the configured list
CommandIndex(command) ==
    CHOOSE i \in 1..Len(kbuildsycoca_commands) : kbuildsycoca_commands[i] = command

\* C23, as the rebuild behaves: one rebuild starts each of the configured
\* commands at most once, in the configured order, so at most three processes,
\* and a later one only after each command started before it exited non-zero.
C23_EachCommandOnce ==
    last.op = "_update_krunner_database" =>
        /\ Len(last.started) <= Len(kbuildsycoca_commands)
        /\ \A i \in 1..Len(last.started) :
              \E k \in 1..Len(kbuildsycoca_commands) :
                  last.started[i] = kbuildsycoca_commands[k]
        /\ \A i, j \in 1..Len(last.started) :
              i < j => /\ CommandIndex(last.started[i]) < CommandIndex(last.started[j])
                       /\ last.env[CommandIndex(last.started[i])] = "nonzero"

\* the first two commands exit non-zero and the third is started as well
C23_Witness ==
    /\ last.op = "_update_krunner_database"
    /\ Len(last.started) = Len(kbuildsycoca_commands)

\* C23 as stated: an operation makes at most one external-process call, the
\* rebuild it triggers starting a command at most once.
C23_OneProcess ==
    last.op \in {"create", "remove", "_update_krunner_database"} =>
        Len(last.started) <= 1

\* the first command that exits with code 0 after commands that were absent
\* or exited non-zero, as a set: empty when there is none
FirstSuccess ==
    {i \in 1..Len(kbuildsycoca_commands) :
        /\ last.env[i] = "ok"
        /\ \A j \in 1..(i - 1) : last.env[j] \in {"absent", "nonzero"}}

\* C24: the rebuild tries kbuildsycoca6, kbuildsycoca5, kbuildsycoca in that
\* order and moves on when a command is absent or exits non-zero; at the
\* first command that exits with code 0 it stops and returns True, having
\* started no later command; when no command succeeds it returns False.
C24_FirstSuccessStops ==
    last.op = "_update_krunner_database" =>
        /\ kbuildsycoca_commands =
              <<"kbuildsycoca6", "kbuildsycoca5", "kbuildsycoca">>
        /\ \A i \in FirstSuccess :
              /\ last.ok /\ ~last.escaped
              /\ last.started =
                    SelectSeq(SubSeq(kbuildsycoca_commands, 1, i),
                              LAMBDA c : last.env[CommandIndex(c)] # "absent")
        /\ (\A i \in 1..Len(kbuildsycoca_commands) : last.env[i] # "ok")
              => (~last.ok /\ ~last.escaped)

\* the cleaned string of the last call's argument, and the text after its
\* last dot
LastCleaned == Cleaned(last.name)

LastExt ==
    SubSeq(LastCleaned, RFindChar(LastCleaned, ".") + 1, Len(LastCleaned))

\* C25, as sanitize_filename behaves: when the cleaned string is longer than
\* 100 characters the result has exactly 100 characters; if the cleaned
\* string contains a dot and the text after its last dot has at most 98
\* characters, the result is the stem cut short, the dot and that text kept
\* whole; otherwise the result is the first 100 characters of the cleaned
\* string, which cuts the text after the last dot as well.
C25_ShortExtensionKept ==
    (/\ last.op = "sanitize_filename"
     /\ last.name # <<>>
     /\ Len(LastCleaned) > MaxFilenameLen)
    =>
        /\ Len(last.out) = MaxFilenameLen
        /\ IF HasChar(LastCleaned, ".") /\ Len(LastExt) + 1 < MaxFilenameLen
           THEN last.out =
                  SubSeq(LastCleaned, 1, MaxFilenameLen - Len(LastExt) - 1)
                  \o <<".">> \o LastExt
           ELSE last.out = SubSeq(LastCleaned, 1, MaxFilenameLen)

\* a long string with a one-letter extension keeps the extension
C25_Witness ==
    /\ last.op = "sanitize_filename"
    /\ Len(LastCleaned) > MaxFilenameLen
    /\ HasChar(LastCleaned, ".")
    /\ LastExt = <<"a">>
    /\ EndsWith(last.out, <<".", "a">>)
    /\ Len(last.out) = MaxFilenameLen

\* C25 as stated: when the cleaned string is longer than 100 characters the
\* result has at most 100 characters, and if the cleaned string contains a
\* dot the text after its last dot is kept whole at the end of the result,
\* only the stem before it being cut.
C25_ExtensionKept ==
    (/\ last.op = "sanitize_filename"
     /\ last.name # <<>>
     /\ Len(LastCleaned) > MaxFilenameLen)
    =>
        /\ Len(last.out) <= MaxFilenameLen
        /\ HasChar(LastCleaned, ".") =>
              \E n \in 0..MaxFilenameLen :
                  last.out = SubSeq(LastCleaned, 1, n) \o <<".">> \o LastExt

\* C26: the update of the command line keeps every field that is not given:
\* for every shortcut create_shortcut serializes from a valid record, the
\* record that update -d <description> writes back has the target and the
\* opener of the shortcut, and the record that update -u <target> writes back
\* has its description and its opener.
C26_UpdateKeepsFields ==
    ValidCreate =>
        /\ update_shortcut(ParseDetails(LastContent), <<>>, <<"N">>, <<>>).url
              = last.url
        /\ update_shortcut(ParseDetails(LastContent), <<>>, <<"N">>, <<>>).browser_command
              = last.browser_command
        /\ update_shortcut(ParseDetails(LastContent), UrlExisting, <<>>, <<>>).description
              = last.description
        /\ update_shortcut(ParseDetails(LastContent), UrlExisting, <<>>, <<>>).browser_command
              = last.browser_command

C28_OtherFilesUntouched ==
    last.op \in {"create", "remove"} =>
        \A d \in Dirs :
            \A f \in DOMAIN fs[d].files \cup DOMAIN last.before[d].files :
                (d # LastDir \/ f # LastFile) =>
                    /\ f \in DOMAIN fs[d].files
                    /\ f \in DOMAIN last.before[d].files
                    /\ fs[d].files[f] = last.before[d].files[f]

\* a create and a remove for another name in a directory that holds a file
C28_Witness ==
    /\ last.op = "remove"
    /\ prev.op = "create" /\ prev.valid /\ prev.same
    /\ OldFile \in DOMAIN fs[LastDir].files
    /\ LastFile # OldFile

=============================================================================
